---- MODULE Spec2Model ----
(***************************************************************************)
(* A model of the robotsline factory simulation (robotsline/models.py,     *)
(* robotsline/handlers.py, robotsline/settings.py).                        *)
(*                                                                         *)
(* The factory is a roster of robots, each holding one RobotState object,  *)
(* and a Stock ledger.  Commands are executed one at a time through        *)
(* handlers.execute, which swallows DomainError and lets every other       *)
(* exception reach its caller.  Money is counted in hundredths, so that    *)
(* Decimal("1.00") is 100.  A Foo or a Bar in stock is only ever counted   *)
(* by the code, so the two lists are modelled by their lengths; a Foobar   *)
(* is modelled by the serial number of its creation, which keeps the order *)
(* of the foobars list observable.                                         *)
(***************************************************************************)
EXTENDS Integers, Sequences, FiniteSets, TLC

(***************************************************************************)
(* Bounds of the model                                                     *)
(***************************************************************************)
\* rounds a behaviour may run in total (guards Wait)
MaxSeconds == 7
\* largest argument of a Wait command
MaxWait == 2

\* in the behaviours that follow a sale to its end: the seconds that may be
\* waited in all, and the foobars the stock may start with
MaxSaleSeconds == 11
MaxFoobars == 6

\* in the behaviours of two robots: the seconds that may be waited in all
MaxTeamSeconds == 2

\* in the behaviours of a bar mine: the seconds that may be waited in all
MaxMineSeconds == 4

\* in the behaviours of a sale that pays for a robot: the seconds that may
\* be waited in all
MaxLedgerSeconds == 15

(***************************************************************************)
(* Location (models.py:20-37)                                              *)
(***************************************************************************)
CAFETERIA == "cafeteria"
ON_MY_WAY == "on my way..."
FOO_MINE == "foo mine"
BAR_MINE == "bar mine"
ASSEMBLY_LINE == "assembly line"
MATERIAL_STORE == "material store"
ROBOTS_STORE == "robots store"

Location ==
  {CAFETERIA, ON_MY_WAY, FOO_MINE, BAR_MINE, ASSEMBLY_LINE, MATERIAL_STORE,
   ROBOTS_STORE}

\* the destination strings a MoveRobot command may carry in the model
DestinationNames ==
  {"Foo Mine", "ASSEMBLY LINE", "robots store", "on my way...", "kitchen"}

\* str.lower() on the strings of the model
\* names taken as they are written
lower_as_written(s) == s

lower(s) ==
  CASE s = "Foo Mine" -> "foo mine"
    [] s = "ASSEMBLY LINE" -> "assembly line"
    [] s = "Foo" -> "foo"
    [] s = "BAR" -> "bar"
    [] OTHER -> s

(***************************************************************************)
(* exceptions.py                                                           *)
(***************************************************************************)
NoError == "none"
InvalidTransition == "InvalidTransition"
NotEnoughMaterial == "NotEnoughMaterial"
UnknownLocation == "UnknownLocation"
UnknownMaterial == "UnknownMaterial"
GameOver == "GameOver"
ValueError == "ValueError"

\* the subclasses of DomainError; GameOver derives from Exception directly
DomainError ==
  {InvalidTransition, NotEnoughMaterial, UnknownLocation, UnknownMaterial}

(***************************************************************************)
(* Settings (settings.py:6-15).  assembly_success_rate is in hundredths.   *)
(***************************************************************************)
DefaultSettings ==
  [initial_robots_nb |-> 2,
   assembly_success_rate |-> 60,
   mining_bar_range_time |-> <<1, 2>>,
   foobars_selling_range |-> <<1, 5>>,
   robot_cost |-> <<3, 6>>,
   limit_of_robots_for_game_over |-> 30]

\* the Settings objects a factory is built with in the model: the defaults,
\* a longer bar mining time, and a limit of robots small enough to be met
SlowBarSettings ==
  [DefaultSettings EXCEPT !.mining_bar_range_time = <<3, 3>>]

\* Settings checks nothing: a range of mining times that holds only 0 is
\* a Settings object as any other
InstantBarSettings ==
  [DefaultSettings EXCEPT !.mining_bar_range_time = <<0, 0>>]

SmallLimitSettings ==
  [DefaultSettings EXCEPT !.limit_of_robots_for_game_over = 2]

\* assemblies that the rate dooms, and assemblies that it guarantees
HopelessSettings == [DefaultSettings EXCEPT !.assembly_success_rate = 0]

CertainSettings == [DefaultSettings EXCEPT !.assembly_success_rate = 100]

\* sales of one foobar at a time, and sales of three foobars at least
SingleSaleSettings ==
  [DefaultSettings EXCEPT !.foobars_selling_range = <<1, 1>>]

BulkSaleSettings ==
  [DefaultSettings EXCEPT !.foobars_selling_range = <<3, 5>>]

\* the values random.random() returns in the model, in hundredths
RandomDraws == {0, 50, 99}

\* random.randint(a, b): the values it may return; it raises ValueError
\* on an empty range, which is the outcome NoDraw
NoDraw == -1000

\* a randint that may return the integer after the range
randint_past_the_end(a, b) == IF a <= b THEN a .. b + 1 ELSE {NoDraw}

randint(a, b) == IF a <= b THEN a .. b ELSE {NoDraw}

(***************************************************************************)
(* Material, Foo, Bar, Foobar (models.py:40-88)                            *)
(***************************************************************************)
NoMaterial == [name |-> "none", where_to_find_it |-> "none", mining_time |-> 0]

FooMiningTime == 1
Foo == [name |-> "foo", where_to_find_it |-> FOO_MINE,
        mining_time |-> FooMiningTime]

Bar(mining_time) ==
  [name |-> "bar", where_to_find_it |-> BAR_MINE, mining_time |-> mining_time]

\* the material names a Mine command may carry in the model
MaterialNames == {"foo", "BAR", "gold"}

\* Material.from_name: the material, or the exception raised; time is the
\* outcome of the random.randint call of Bar.from_randomness
Material_from_name(material_name, time) ==
  IF lower(material_name) = "foo"
  THEN [exc |-> NoError, material |-> Foo]
  ELSE IF lower(material_name) = "bar"
  THEN IF time = NoDraw
       THEN [exc |-> ValueError, material |-> NoMaterial]
       ELSE [exc |-> NoError, material |-> Bar(time)]
  ELSE [exc |-> UnknownMaterial, material |-> NoMaterial]

\* Foobar.price, Decimal("1.00")
FoobarPrice == 100

\* Decimal(n) for an integer n, in hundredths
Decimal(n) == n * 100

(***************************************************************************)
(* RobotState and its subclasses (models.py:216-357): a state object is a  *)
(* record; the fields a subclass does not have hold "none", 0 or <<>>.     *)
(***************************************************************************)
NoFoobar == 0

StateObject(class, countdown, location) ==
  [class |-> class, countdown |-> countdown, location |-> location,
   destination |-> "none", material |-> NoMaterial, foobar |-> NoFoobar,
   assembly_success_rate |-> 0, foobars |-> <<>>]

Idle(location) == StateObject("Idle", 0, location)

HauntingCountdown == 999999999
Haunting == StateObject("Haunting", HauntingCountdown, ON_MY_WAY)

MovingDuration == 5
Moving(destination) ==
  [StateObject("Moving", MovingDuration, ON_MY_WAY)
     EXCEPT !.destination = destination]

Mining(material) ==
  [StateObject("Mining", material.mining_time, material.where_to_find_it)
     EXCEPT !.material = material]

AssemblingDuration == 2
AssemblingLocation == ASSEMBLY_LINE

\* an Assembling state whose countdown starts one second too long
Assembling_three_seconds(foobar, assembly_success_rate) ==
  [StateObject("Assembling", AssemblingDuration + 1, AssemblingLocation)
     EXCEPT !.foobar = foobar,
            !.assembly_success_rate = assembly_success_rate]

Assembling(foobar, assembly_success_rate) ==
  [StateObject("Assembling", AssemblingDuration, AssemblingLocation)
     EXCEPT !.foobar = foobar,
            !.assembly_success_rate = assembly_success_rate]

SellDuration == 10

\* sales that take place at the cafeteria
SellLocation_cafeteria == CAFETERIA

SellLocation == MATERIAL_STORE

\* a Sell state that does not keep the foobars it is given
Sell_empty_handed(foobars) == StateObject("Sell", SellDuration, SellLocation)

Sell(foobars) ==
  [StateObject("Sell", SellDuration, SellLocation) EXCEPT !.foobars = foobars]

(***************************************************************************)
(* Robot (models.py:95-132)                                                *)
(***************************************************************************)
\* the id "Ghost", which no integer id equals
GhostId == -1

\* a constructor whose robots start on their way to the given location
Robot_on_its_way(id_, location) == [id_ |-> id_, state |-> Moving(location)]

\* Robot(id_, location): a new robot is Idle at the given location
Robot(id_, location) == [id_ |-> id_, state |-> Idle(location)]

\* Robot.ghost()
Robot_ghost == [id_ |-> GhostId, state |-> Haunting]

\* Robot.__bool__
Robot_bool(robot) == robot.id_ = GhostId

\* a generator whose robots appear at the robots store
robots_generator_next_at_the_store(n) == Robot(n, ROBOTS_STORE)

\* the robot that robots_generator yields when its counter stands at n
robots_generator_next(n) == Robot(n, CAFETERIA)

(***************************************************************************)
(* The factory as a value: the roster and the ledger of its Stock, the     *)
(* counter of the stock's robots generator, the number of Foobar objects   *)
(* created so far, and RoboticFactory.seconds_left.  An operation yields   *)
(* the factory it leaves behind and the exception it raised (NoError when  *)
(* it returned): what it assigned before raising stays assigned.           *)
(***************************************************************************)
Return(f) == [factory |-> f, exc |-> NoError]
Raise(f, exception) == [factory |-> f, exc |-> exception]

(***************************************************************************)
(* Stock (models.py:135-213)                                               *)
(***************************************************************************)
\* an add_robot that puts the new robot at the head of the roster
Stock_add_robot_in_front(f) ==
  [f EXCEPT !.robots = <<robots_generator_next(f.counter)>> \o f.robots,
            !.counter = f.counter + 1]

\* Stock.add_robot
Stock_add_robot(f) ==
  [f EXCEPT !.robots = Append(f.robots, robots_generator_next(f.counter)),
            !.counter = f.counter + 1]

\* a has_enough_material that counts the foos and not the bars
Stock_has_enough_material_foos_only(f) ==
  IF f.foos < 1 THEN FALSE
  ELSE TRUE

\* Stock.has_enough_material
Stock_has_enough_material(f) ==
  IF f.foos < 1 THEN FALSE
  ELSE IF f.bars < 1 THEN FALSE
  ELSE TRUE

\* a start_assembling that pops a Foo and leaves the Bar in stock
Stock_start_assembling_foo_only(f) ==
  IF ~Stock_has_enough_material(f)
  THEN Raise(f, NotEnoughMaterial)
  ELSE Return([f EXCEPT !.foos = f.foos - 1, !.created = f.created + 1])

\* Stock.start_assembling: the Foobar it returns is f.created + 1
Stock_start_assembling(f) ==
  IF ~Stock_has_enough_material(f)
  THEN Raise(f, NotEnoughMaterial)
  ELSE Return([f EXCEPT !.foos = f.foos - 1, !.bars = f.bars - 1,
                        !.created = f.created + 1])

\* an end_assembling_success that puts the Foobar in front of the others
Stock_end_assembling_success_in_front(f, foobar) ==
  [f EXCEPT !.foobars = <<foobar>> \o f.foobars]

\* Stock.end_assembling_success
Stock_end_assembling_success(f, foobar) ==
  [f EXCEPT !.foobars = Append(f.foobars, foobar)]

\* an end_assembling_failure that saves the Foo as well as the Bar
Stock_end_assembling_failure_saves_both(f, foobar) ==
  [f EXCEPT !.bars = f.bars + 1, !.foos = f.foos + 1]

\* Stock.end_assembling_failure
Stock_end_assembling_failure(f, foobar) ==
  [f EXCEPT !.bars = f.bars + 1]

\* a new_material that stocks two bars for each Bar mined
Stock_new_material_bars_by_two(f, material) ==
  IF material.name = "foo" THEN [f EXCEPT !.foos = f.foos + 1]
  ELSE IF material.name = "bar" THEN [f EXCEPT !.bars = f.bars + 2]
  ELSE f

\* Stock.new_material
Stock_new_material(f, material) ==
  IF material.name = "foo" THEN [f EXCEPT !.foos = f.foos + 1]
  ELSE IF material.name = "bar" THEN [f EXCEPT !.bars = f.bars + 1]
  ELSE f

Min(a, b) == IF a <= b THEN a ELSE b

\* the number of foobars Stock.start_selling takes
sell_nb(f, max_nb) == Min(max_nb, Len(f.foobars))

\* a start_selling that keeps the front of the list and drops its back
Stock_start_selling_from_the_back(f, min_nb, max_nb) ==
  IF sell_nb(f, max_nb) < min_nb
  THEN Raise(f, NotEnoughMaterial)
  ELSE Return([f EXCEPT !.foobars =
                 SubSeq(f.foobars, 1, Len(f.foobars) - sell_nb(f, max_nb))])

\* Stock.start_selling: the list it returns is the first sell_nb foobars
Stock_start_selling(f, min_nb, max_nb) ==
  IF sell_nb(f, max_nb) < min_nb
  THEN Raise(f, NotEnoughMaterial)
  ELSE Return([f EXCEPT !.foobars =
                 SubSeq(f.foobars, sell_nb(f, max_nb) + 1, Len(f.foobars))])

\* a sold that credits the price of one foobar whatever the batch
Stock_sold_one_price(f, foobars) ==
  [f EXCEPT !.money = f.money + FoobarPrice]

\* Stock.sold
Stock_sold(f, foobars) ==
  [f EXCEPT !.money = f.money + Len(foobars) * FoobarPrice]

\* a buy_robot that takes the money before it counts the foos
Stock_buy_robot_pays_first(f, required_money, required_foos) ==
  IF required_money > f.money THEN Raise(f, NotEnoughMaterial)
  ELSE IF required_foos > f.foos
  THEN Raise([f EXCEPT !.money = f.money - required_money],
             NotEnoughMaterial)
  ELSE Return(Stock_add_robot(
         [f EXCEPT !.money = f.money - required_money,
                   !.foos = f.foos - required_foos]))

\* Stock.buy_robot
Stock_buy_robot(f, required_money, required_foos) ==
  IF required_money > f.money THEN Raise(f, NotEnoughMaterial)
  ELSE IF required_foos > f.foos THEN Raise(f, NotEnoughMaterial)
  ELSE Return(Stock_add_robot(
         [f EXCEPT !.money = f.money - required_money,
                   !.foos = f.foos - required_foos]))

\* the roster positions holding a robot with the given id
PositionsOf(f, robot_id) ==
  {i \in 1 .. Len(f.robots) : f.robots[i].id_ = robot_id}

\* a get_robot that falls back on the first robot of the roster
Stock_get_robot_or_first(f, robot_id) ==
  IF PositionsOf(f, robot_id) = {} THEN Min(1, Len(f.robots))
  ELSE CHOOSE i \in PositionsOf(f, robot_id) :
         \A j \in PositionsOf(f, robot_id) : i <= j

\* Stock.get_robot: the roster position of the first robot with the given
\* id, or 0 when the loop finds none and a ghost is returned
Stock_get_robot(f, robot_id) ==
  IF PositionsOf(f, robot_id) = {} THEN 0
  ELSE CHOOSE i \in PositionsOf(f, robot_id) :
         \A j \in PositionsOf(f, robot_id) : i <= j

\* the robot at a position returned by Stock_get_robot
RobotAt(f, i) == IF i = 0 THEN Robot_ghost ELSE f.robots[i]

\* a state given to every robot that has the id of the robot at position i
SetState_of_every_namesake(f, i, state) ==
  IF i = 0 THEN f
  ELSE [f EXCEPT !.robots =
          [j \in 1 .. Len(f.robots) |->
             IF f.robots[j].id_ = f.robots[i].id_
             THEN [f.robots[j] EXCEPT !.state = state]
             ELSE f.robots[j]]]

\* robot.state = state for the robot at position i; a ghost is not in the
\* roster and is dropped when the command returns
SetState(f, i, state) ==
  IF i = 0 THEN f ELSE [f EXCEPT !.robots[i].state = state]

(***************************************************************************)
(* The capabilities of a state (models.py:231-251 for the base class,      *)
(* 359-394 for Idle), applied to the robot at roster position i.           *)
(***************************************************************************)
\* a move that Moving inherits from Idle
State_move_reroute(f, i, destination) ==
  IF RobotAt(f, i).state.class \in {"Idle", "Moving"}
  THEN Return(SetState(f, i, Moving(destination)))
  ELSE Raise(f, InvalidTransition)

\* RobotState.move / Idle.move
State_move(f, i, destination) ==
  IF RobotAt(f, i).state.class = "Idle"
  THEN Return(SetState(f, i, Moving(destination)))
  ELSE Raise(f, InvalidTransition)

\* an Idle.mine that does not compare the location with the source
State_mine_anywhere(f, i, material) ==
  IF RobotAt(f, i).state.class = "Idle"
  THEN Raise(SetState(f, i, Mining(material)), InvalidTransition)
  ELSE Raise(f, InvalidTransition)

\* RobotState.mine / Idle.mine
State_mine(f, i, material) ==
  IF RobotAt(f, i).state.class = "Idle"
  THEN IF RobotAt(f, i).state.location = material.where_to_find_it
       THEN Raise(SetState(f, i, Mining(material)), InvalidTransition)
       ELSE Raise(f, InvalidTransition)
  ELSE Raise(f, InvalidTransition)

\* an assemble that an Idle robot starts wherever it is
State_assemble_anywhere(f, i, assembly_success_rate) ==
  IF RobotAt(f, i).state.class = "Idle"
  THEN IF Stock_start_assembling(f).exc = NotEnoughMaterial
       THEN Raise(Stock_start_assembling(f).factory, InvalidTransition)
       ELSE Return(SetState(Stock_start_assembling(f).factory, i,
                     Assembling(Stock_start_assembling(f).factory.created,
                                assembly_success_rate)))
  ELSE Raise(f, InvalidTransition)

\* RobotState.assemble / Idle.assemble
State_assemble(f, i, assembly_success_rate) ==
  IF RobotAt(f, i).state.class = "Idle"
  THEN IF RobotAt(f, i).state.location # AssemblingLocation
       THEN Raise(f, InvalidTransition)
       ELSE IF Stock_start_assembling(f).exc = NotEnoughMaterial
       THEN Raise(Stock_start_assembling(f).factory, InvalidTransition)
       ELSE Return(SetState(Stock_start_assembling(f).factory, i,
                     Assembling(Stock_start_assembling(f).factory.created,
                                assembly_success_rate)))
  ELSE Raise(f, InvalidTransition)

\* a sell that every state at the material store accepts, busy or not
State_sell_while_busy(f, i, min_nb, max_nb) ==
  IF RobotAt(f, i).state.location # SellLocation
  THEN Raise(f, InvalidTransition)
  ELSE IF Stock_start_selling(f, min_nb, max_nb).exc # NoError
  THEN Stock_start_selling(f, min_nb, max_nb)
  ELSE Return(SetState(Stock_start_selling(f, min_nb, max_nb).factory, i,
                Sell(SubSeq(f.foobars, 1, sell_nb(f, max_nb)))))

\* RobotState.sell / Idle.sell
State_sell(f, i, min_nb, max_nb) ==
  IF RobotAt(f, i).state.class = "Idle"
  THEN IF RobotAt(f, i).state.location # SellLocation
       THEN Raise(f, InvalidTransition)
       ELSE IF Stock_start_selling(f, min_nb, max_nb).exc # NoError
       THEN Stock_start_selling(f, min_nb, max_nb)
       ELSE Return(SetState(Stock_start_selling(f, min_nb, max_nb).factory, i,
                     Sell(SubSeq(f.foobars, 1, sell_nb(f, max_nb)))))
  ELSE Raise(f, InvalidTransition)

\* a buy that an Idle robot completes wherever it is
State_buy_anywhere(f, i, required_money, required_foos) ==
  IF RobotAt(f, i).state.class = "Idle"
  THEN Stock_buy_robot(f, required_money, required_foos)
  ELSE Raise(f, InvalidTransition)

\* RobotState.buy / Idle.buy
State_buy(f, i, required_money, required_foos) ==
  IF RobotAt(f, i).state.class = "Idle"
  THEN IF RobotAt(f, i).state.location # ROBOTS_STORE
       THEN Raise(f, InvalidTransition)
       ELSE Stock_buy_robot(f, required_money, required_foos)
  ELSE Raise(f, InvalidTransition)

\* RobotState.haunt
State_haunt(f, i) ==
  IF Robot_bool(RobotAt(f, i))
  THEN Raise(f, InvalidTransition)
  ELSE Return(SetState(f, i, Haunting))

(***************************************************************************)
(* terminate and run_round (models.py:259-266, 287-288, 306-308, 327-332,  *)
(* 348-350)                                                                *)
(***************************************************************************)
\* a terminate where Moving idles at self.location, as the other states do
State_terminate_in_place(f, i, draws) ==
  LET state == f.robots[i].state IN
  CASE state.class = "Moving" ->
         SetState(f, i, Idle(state.location))
    [] state.class = "Mining" ->
         SetState(Stock_new_material(f, state.material), i,
                  Idle(state.location))
    [] state.class = "Assembling" ->
         SetState(IF draws[i] <= state.assembly_success_rate
                  THEN Stock_end_assembling_success(f, state.foobar)
                  ELSE Stock_end_assembling_failure(f, state.foobar),
                  i, Idle(state.location))
    [] state.class = "Sell" ->
         SetState(Stock_sold(f, state.foobars), i, Idle(state.location))
    [] OTHER -> f

\* RobotState.terminate and its overrides, for the robot at position i;
\* draws[i] is the value random.random() returns to Assembling.terminate
State_terminate(f, i, draws) ==
  LET state == f.robots[i].state IN
  CASE state.class = "Moving" ->
         SetState(f, i, Idle(state.destination))
    [] state.class = "Mining" ->
         SetState(Stock_new_material(f, state.material), i,
                  Idle(state.location))
    [] state.class = "Assembling" ->
         SetState(IF draws[i] <= state.assembly_success_rate
                  THEN Stock_end_assembling_success(f, state.foobar)
                  ELSE Stock_end_assembling_failure(f, state.foobar),
                  i, Idle(state.location))
    [] state.class = "Sell" ->
         SetState(Stock_sold(f, state.foobars), i, Idle(state.location))
    [] OTHER -> f

\* a run_round that compares the countdown with 0 before it decrements it
State_run_round_late(f, i, draws) ==
  IF f.robots[i].state.countdown = 0
  THEN State_terminate(f, i, draws)
  ELSE [f EXCEPT !.robots[i].state.countdown = @ - 1]

\* RobotState.run_round, called through Robot.run_round
State_run_round(f, i, draws) ==
  LET g == [f EXCEPT !.robots[i].state.countdown = @ - 1] IN
  IF g.robots[i].state.countdown = 0
  THEN State_terminate(g, i, draws)
  ELSE g

\* the loop of RoboticFactory.run_round from roster position i on
RECURSIVE run_robots(_, _, _)
run_robots(f, i, draws) ==
  IF i > Len(f.robots) THEN f
  ELSE run_robots(State_run_round(f, i, draws), i + 1, draws)

\* a round that runs the robots twice
Factory_run_round_twice(f, draws) ==
  [run_robots(run_robots(f, 1, draws), 1, draws)
     EXCEPT !.seconds_left = @ + 1]

\* RoboticFactory.run_round
Factory_run_round(f, draws) ==
  [run_robots(f, 1, draws) EXCEPT !.seconds_left = @ + 1]

\* a wait that runs one round, however many seconds it is given
Factory_wait_of_one_round(f, seconds, draws) ==
  IF seconds <= 0 THEN Return(f)
  ELSE Return(Factory_run_round(f, draws))

\* RoboticFactory.wait
RECURSIVE Factory_wait(_, _, _)
Factory_wait(f, seconds, draws) ==
  IF seconds <= 0 THEN Return(f)
  ELSE Factory_wait(Factory_run_round(f, draws), seconds - 1, draws)

(***************************************************************************)
(* RoboticFactory.move/mine/assemble/sell/buy_robot (models.py:413-442)    *)
(***************************************************************************)
\* Location.by_name
Location_by_name(name) ==
  IF name \in Location THEN [exc |-> NoError, location |-> name]
  ELSE [exc |-> UnknownLocation, location |-> "none"]

\* RoboticFactory.move
Factory_move(f, robot_id, destination) ==
  IF Location_by_name(lower(destination)).exc # NoError
  THEN Raise(f, Location_by_name(lower(destination)).exc)
  ELSE State_move(f, Stock_get_robot(f, robot_id),
                  Location_by_name(lower(destination)).location)

\* RoboticFactory.mine
Factory_mine(f, robot_id, material, time) ==
  IF Material_from_name(material, time).exc # NoError
  THEN Raise(f, Material_from_name(material, time).exc)
  ELSE State_mine(f, Stock_get_robot(f, robot_id),
                  Material_from_name(material, time).material)

\* RoboticFactory.assemble
Factory_assemble(f, settings_, robot_id) ==
  State_assemble(f, Stock_get_robot(f, robot_id),
                 settings_.assembly_success_rate)

\* RoboticFactory.sell
Factory_sell(f, settings_, robot_id) ==
  State_sell(f, Stock_get_robot(f, robot_id),
             settings_.foobars_selling_range[1],
             settings_.foobars_selling_range[2])

\* a buy_robot after which the buyer leaves for the cafeteria
Factory_buy_robot_and_leave(f, settings_, robot_id) ==
  LET bought == State_buy(f, Stock_get_robot(f, robot_id),
                          Decimal(settings_.robot_cost[1]),
                          settings_.robot_cost[2])
  IN IF bought.exc = NoError
     THEN Return(SetState(bought.factory, Stock_get_robot(f, robot_id),
                          Moving(CAFETERIA)))
     ELSE bought

\* RoboticFactory.buy_robot
Factory_buy_robot(f, settings_, robot_id) ==
  State_buy(f, Stock_get_robot(f, robot_id),
            Decimal(settings_.robot_cost[1]), settings_.robot_cost[2])

(***************************************************************************)
(* handlers.execute (handlers.py:13-69)                                    *)
(***************************************************************************)
\* a wrapper whose except clause names InvalidTransition, not DomainError
ignore_invalid_transitions(exc) ==
  IF exc = InvalidTransition
  THEN [caught |-> exc, propagated |-> NoError]
  ELSE [caught |-> NoError, propagated |-> exc]

\* ignore_domain_errors: what the wrapper logs and what reaches its caller
ignore_domain_errors(exc) ==
  IF exc \in DomainError
  THEN [caught |-> exc, propagated |-> NoError]
  ELSE [caught |-> NoError, propagated |-> exc]

(***************************************************************************)
(* The state of the program                                                *)
(***************************************************************************)
VARIABLES
  robots,        \* Stock.robots
  foos,          \* len(Stock.foos)
  bars,          \* len(Stock.bars)
  foobars,       \* Stock.foobars
  money,         \* Stock.money, in hundredths
  counter,       \* next value of the counter of Stock._robot_generator
  created,       \* number of Foobar objects created so far
  seconds_left,  \* RoboticFactory.seconds_left
  settings,      \* RoboticFactory.settings
  command,       \* the last command given to handlers.execute
  caught,        \* the DomainError it logged, or NoError
  propagated     \* the exception that reached its caller, or NoError

vars == <<robots, foos, bars, foobars, money, counter, created, seconds_left,
          settings, command, caught, propagated>>

\* the factory of the current state
factory ==
  [robots |-> robots, foos |-> foos, bars |-> bars, foobars |-> foobars,
   money |-> money, counter |-> counter, created |-> created,
   seconds_left |-> seconds_left]

\* the stock and the roster, which a dropped command must leave alone
simulation == <<robots, foos, bars, foobars, money, counter, created,
                seconds_left>>

NoCommand == [kind |-> "none", robot_id |-> 0]

\* the stocks a factory starts with
EmptyStock == [foos |-> 0, bars |-> 0, foobars |-> 0, money |-> 0]
OneOfEach == [foos |-> 1, bars |-> 1, foobars |-> 0, money |-> 0]
RichStock == [foos |-> 6, bars |-> 1, foobars |-> 2, money |-> 300]
FooShortStock == [foos |-> 2, bars |-> 0, foobars |-> 0, money |-> 1000]
MoneyShortStock == [foos |-> 10, bars |-> 0, foobars |-> 0, money |-> 200]

\* the factories a behaviour starts from: one robot built with an explicit
\* id and location over a stock seeded for the task of that location, as
\* the tests build them; the roster grows when a robot is bought
Start(settings_, roster, counter_, stock) ==
  [settings |-> settings_, robots |-> roster, counter |-> counter_,
   stock |-> stock]

InitialFactories ==
  {Start(DefaultSettings, <<Robot(1, FOO_MINE)>>, 1, EmptyStock),
   Start(DefaultSettings, <<Robot(1, BAR_MINE)>>, 1, EmptyStock),
   Start(SlowBarSettings, <<Robot(1, BAR_MINE)>>, 1, EmptyStock),
   Start(DefaultSettings, <<Robot(1, ASSEMBLY_LINE)>>, 1, OneOfEach),
   Start(HopelessSettings, <<Robot(1, ASSEMBLY_LINE)>>, 1, OneOfEach),
   Start(CertainSettings, <<Robot(1, ASSEMBLY_LINE)>>, 1, OneOfEach),
   Start(DefaultSettings, <<Robot(1, MATERIAL_STORE)>>, 1, RichStock),
   Start(SingleSaleSettings, <<Robot(1, MATERIAL_STORE)>>, 1, RichStock),
   Start(BulkSaleSettings, <<Robot(1, MATERIAL_STORE)>>, 1, RichStock),
   Start(SmallLimitSettings, <<Robot(1, ROBOTS_STORE)>>, 1, RichStock),
   Start(DefaultSettings, <<Robot(1, ROBOTS_STORE)>>, 1, FooShortStock),
   Start(DefaultSettings, <<Robot(1, ROBOTS_STORE)>>, 1, MoneyShortStock),
   Start(DefaultSettings, <<Robot(1, CAFETERIA)>>, 1, OneOfEach)}

\* the state after the construction of one of the given factories
InitFrom(factories) ==
  /\ \E initial \in factories :
       /\ settings = initial.settings
       /\ robots = initial.robots
       /\ counter = initial.counter
       /\ foos = initial.stock.foos
       /\ bars = initial.stock.bars
       /\ foobars = [k \in 1 .. initial.stock.foobars |-> k]
       /\ created = initial.stock.foobars
       /\ money = initial.stock.money
  /\ seconds_left = 0
  /\ command = NoCommand
  /\ caught = NoError
  /\ propagated = NoError

Init == InitFrom(InitialFactories)

\* the robot ids a command may carry: those of the roster and one of no robot
RobotIds == {robots[i].id_ : i \in 1 .. Len(robots)} \cup {99}

\* handlers.execute(cmd, on_factory): result is what the routed method of
\* RoboticFactory left behind and raised
execute(cmd, result) ==
  /\ robots' = result.factory.robots
  /\ foos' = result.factory.foos
  /\ bars' = result.factory.bars
  /\ foobars' = result.factory.foobars
  /\ money' = result.factory.money
  /\ counter' = result.factory.counter
  /\ created' = result.factory.created
  /\ seconds_left' = result.factory.seconds_left
  /\ command' = cmd
  /\ caught' = ignore_domain_errors(result.exc).caught
  /\ propagated' = ignore_domain_errors(result.exc).propagated
  /\ UNCHANGED settings

MoveRobot(robot_id, destination) ==
  execute([kind |-> "MoveRobot", robot_id |-> robot_id],
          Factory_move(factory, robot_id, destination))

Mine(robot_id, material) ==
  \E time \in randint(settings.mining_bar_range_time[1],
                      settings.mining_bar_range_time[2]) :
    execute([kind |-> "Mine", robot_id |-> robot_id],
            Factory_mine(factory, robot_id, material, time))

Assemble(robot_id) ==
  execute([kind |-> "Assemble", robot_id |-> robot_id],
          Factory_assemble(factory, settings, robot_id))

SellFoobars(robot_id) ==
  execute([kind |-> "SellFoobars", robot_id |-> robot_id],
          Factory_sell(factory, settings, robot_id))

BuyRobot(robot_id) ==
  execute([kind |-> "BuyRobot", robot_id |-> robot_id],
          Factory_buy_robot(factory, settings, robot_id))

\* the robots that may call random.random() during a wait: a robot resolves
\* at most one assembly per wait, no command being executed meanwhile
AssemblingPositions ==
  {i \in 1 .. Len(robots) : robots[i].state.class = "Assembling"}

\* handlers.wait, while no more than limit seconds are waited in all
WaitWithin(limit, seconds) ==
  /\ seconds_left + seconds <= limit
  /\ \E draws \in [AssemblingPositions -> RandomDraws] :
       execute([kind |-> "Wait", robot_id |-> 0],
               Factory_wait(factory, seconds, draws))

Wait(seconds) == WaitWithin(MaxSeconds, seconds)

Next ==
  \/ \E robot_id \in RobotIds, destination \in DestinationNames :
       MoveRobot(robot_id, destination)
  \/ \E robot_id \in RobotIds, material \in MaterialNames :
       Mine(robot_id, material)
  \/ \E robot_id \in RobotIds : Assemble(robot_id)
  \/ \E robot_id \in RobotIds : SellFoobars(robot_id)
  \/ \E robot_id \in RobotIds : BuyRobot(robot_id)
  \/ \E seconds \in 0 .. MaxWait : Wait(seconds)

Spec == Init /\ [][Next]_vars

\* the factories of the selling tests: one robot at the material store and
\* nothing in stock but foobars
SaleFactories ==
  {Start(settings_, <<Robot(1, MATERIAL_STORE)>>, 1,
         [foos |-> 0, bars |-> 0, foobars |-> n, money |-> 0]) :
     settings_ \in {DefaultSettings, BulkSaleSettings},
     n \in 0 .. MaxFoobars}

SaleInit == InitFrom(SaleFactories)

SaleWait(seconds) == WaitWithin(MaxSaleSeconds, seconds)

SaleNext ==
  \/ \E robot_id \in RobotIds, destination \in DestinationNames :
       MoveRobot(robot_id, destination)
  \/ \E robot_id \in RobotIds, material \in MaterialNames :
       Mine(robot_id, material)
  \/ \E robot_id \in RobotIds : Assemble(robot_id)
  \/ \E robot_id \in RobotIds : SellFoobars(robot_id)
  \/ \E robot_id \in RobotIds : BuyRobot(robot_id)
  \/ \E seconds \in 0 .. MaxWait : SaleWait(seconds)

\* the behaviours that follow a sale to its end
SaleSpec == SaleInit /\ [][SaleNext]_vars

\* the factories of two robots with ids of their own, both at the assembly
\* line with two foos and two bars in stock
TeamStock == [foos |-> 2, bars |-> 2, foobars |-> 0, money |-> 0]

TeamFactories ==
  {Start(CertainSettings,
         <<Robot(1, ASSEMBLY_LINE), Robot(2, ASSEMBLY_LINE)>>, 1, TeamStock)}

TeamInit == InitFrom(TeamFactories)

TeamWait(seconds) == WaitWithin(MaxTeamSeconds, seconds)

TeamNext ==
  \/ \E robot_id \in RobotIds, destination \in DestinationNames :
       MoveRobot(robot_id, destination)
  \/ \E robot_id \in RobotIds, material \in MaterialNames :
       Mine(robot_id, material)
  \/ \E robot_id \in RobotIds : Assemble(robot_id)
  \/ \E robot_id \in RobotIds : SellFoobars(robot_id)
  \/ \E robot_id \in RobotIds : BuyRobot(robot_id)
  \/ \E seconds \in 0 .. MaxWait : TeamWait(seconds)

\* the behaviours of two robots that can both be given commands
TeamSpec == TeamInit /\ [][TeamNext]_vars

\* the factories of a bar mine: one robot at the bar mine, over an empty
\* stock, with the default mining times or with a mining time of 0
MineFactories ==
  {Start(settings_, <<Robot(1, BAR_MINE)>>, 1, EmptyStock) :
     settings_ \in {DefaultSettings, InstantBarSettings}}

MineInit == InitFrom(MineFactories)

MineWait(seconds) == WaitWithin(MaxMineSeconds, seconds)

MineNext ==
  \/ \E robot_id \in RobotIds, destination \in DestinationNames :
       MoveRobot(robot_id, destination)
  \/ \E robot_id \in RobotIds, material \in MaterialNames :
       Mine(robot_id, material)
  \/ \E robot_id \in RobotIds : Assemble(robot_id)
  \/ \E robot_id \in RobotIds : SellFoobars(robot_id)
  \/ \E robot_id \in RobotIds : BuyRobot(robot_id)
  \/ \E seconds \in 0 .. MaxWait : MineWait(seconds)

\* the behaviours of a robot that mines bars
MineSpec == MineInit /\ [][MineNext]_vars

\* the factory of a sale that pays for a robot: one robot at the material
\* store, one foobar to sell, the foos of a robot and 1.00 short of its price
LedgerStock == [foos |-> 6, bars |-> 0, foobars |-> 1, money |-> 200]

LedgerFactories ==
  {Start(DefaultSettings, <<Robot(1, MATERIAL_STORE)>>, 1, LedgerStock)}

LedgerInit == InitFrom(LedgerFactories)

LedgerWait(seconds) == WaitWithin(MaxLedgerSeconds, seconds)

LedgerNext ==
  \/ \E robot_id \in RobotIds, destination \in DestinationNames :
       MoveRobot(robot_id, destination)
  \/ \E robot_id \in RobotIds, material \in MaterialNames :
       Mine(robot_id, material)
  \/ \E robot_id \in RobotIds : Assemble(robot_id)
  \/ \E robot_id \in RobotIds : SellFoobars(robot_id)
  \/ \E robot_id \in RobotIds : BuyRobot(robot_id)
  \/ \E seconds \in 0 .. MaxWait : LedgerWait(seconds)

\* the behaviours that follow the money from a sale to a purchase
LedgerSpec == LedgerInit /\ [][LedgerNext]_vars

(***************************************************************************)
(* Helpers of the properties                                               *)
(***************************************************************************)
\* the roster position a command for robot_id acts on (0: no such robot)
Target(robot_id) == Stock_get_robot(factory, robot_id)

\* the robot at position i is in a state of the given class
IsA(i, class) == i \in 1 .. Len(robots) /\ robots[i].state.class = class

\* the number of rounds a step runs
Rounds == seconds_left' - seconds_left

\* the stock and the counters are the same before and after a step
LedgerUnchanged ==
  /\ foos' = foos /\ bars' = bars /\ foobars' = foobars /\ money' = money
  /\ counter' = counter /\ created' = created

(***************************************************************************)
(* C1: a wait that runs at least one round over a roster that has reached  *)
(* settings.limit_of_robots_for_game_over raises GameOver to its caller.   *)
(***************************************************************************)
C1_WaitRaisesGameOver ==
  [][(command'.kind = "Wait" /\ Rounds >= 1
      /\ Len(robots') >= settings.limit_of_robots_for_game_over)
     => propagated' = GameOver]_vars

(***************************************************************************)
(* C2: none of InvalidTransition, NotEnoughMaterial, UnknownLocation and   *)
(* UnknownMaterial reaches the caller of handlers.execute: the command     *)
(* that raised one returned normally.                                      *)
(***************************************************************************)
C2_DomainErrorsNeverPropagate ==
  /\ propagated \notin {"InvalidTransition", "NotEnoughMaterial",
                        "UnknownLocation", "UnknownMaterial"}
  /\ caught # NoError => propagated = NoError

\* a BuyRobot command at the robots store was refused by Stock.buy_robot
C2_Witness ==
  /\ command.kind = "BuyRobot"
  /\ caught = "NotEnoughMaterial"
  /\ propagated = NoError
  /\ IsA(Target(command.robot_id), "Idle")
  /\ robots[Target(command.robot_id)].state.location = ROBOTS_STORE

(***************************************************************************)
(* C3: a command that raised a domain error leaves every robot of the      *)
(* roster and every quantity of the ledger as they were.                   *)
(***************************************************************************)
C3_DroppedCommandChangesNothing ==
  [][caught' # NoError => UNCHANGED simulation]_vars

(***************************************************************************)
(* C4: a Mine command for an Idle robot standing at the source of the      *)
(* material makes it Mining there, with the extraction time of the         *)
(* material as countdown, and raises no InvalidTransition.                 *)
(***************************************************************************)
C4_MineAtSourceSucceeds ==
  [][\A robot_id \in RobotIds, material \in {"foo", "BAR"} :
       LET i == Target(robot_id) IN
       (/\ command'.kind = "Mine"
        /\ command'.robot_id = robot_id
        /\ Mine(robot_id, material)
        /\ IsA(i, "Idle")
        /\ robots[i].state.location =
             (IF material = "foo" THEN FOO_MINE ELSE BAR_MINE))
       => /\ robots'[i].state.class = "Mining"
          /\ robots'[i].state.location = robots[i].state.location
          /\ robots'[i].state.countdown =
               robots'[i].state.material.mining_time
          /\ caught' = NoError
          /\ propagated' = NoError]_vars

(***************************************************************************)
(* C5: a Mine command for foo or bar addressed to an Idle robot that is    *)
(* not at the source of that material fails with InvalidTransition; the    *)
(* robot stays Idle where it is and the stock is unchanged.                *)
(***************************************************************************)
C5_MineAwayFromSourceFails ==
  [][\A robot_id \in RobotIds, material \in {"foo", "BAR"} :
       LET i == Target(robot_id) IN
       (/\ command'.kind = "Mine"
        /\ command'.robot_id = robot_id
        /\ Mine(robot_id, material)
        /\ IsA(i, "Idle")
        /\ robots[i].state.location #
             (IF material = "foo" THEN FOO_MINE ELSE BAR_MINE))
       => /\ caught' = "InvalidTransition"
          /\ propagated' = NoError
          /\ robots' = robots
          /\ LedgerUnchanged
          /\ seconds_left' = seconds_left]_vars

\* a Mine command was refused to an Idle robot standing at the other mine
C5_Witness ==
  /\ command.kind = "Mine"
  /\ caught = "InvalidTransition"
  /\ IsA(Target(command.robot_id), "Idle")
  /\ robots[Target(command.robot_id)].state.location = BAR_MINE
  /\ bars = 0
  /\ seconds_left = 0

(***************************************************************************)
(* Helpers of the properties about rounds                                  *)
(***************************************************************************)
\* the robots whose task of the given class resolves during the step
Completing(class) ==
  {i \in 1 .. Len(robots) :
     robots[i].state.class = class /\ robots[i].state.countdown <= Rounds}

\* the robots that finish mining the named material during the step
CompletingMining(name) ==
  {i \in Completing("Mining") : robots[i].state.material.name = name}

\* the robot at position i, busy with a task, went through the rounds of
\* the step: it is in the same state with that many seconds less to go, or
\* its task has resolved and it is Idle at the given place
WentThroughRounds(i, place) ==
  IF Rounds < robots[i].state.countdown
  THEN robots'[i].state =
         [robots[i].state EXCEPT !.countdown = @ - Rounds]
  ELSE /\ robots'[i].state.class = "Idle"
       /\ robots'[i].state.location = place

Range(seq) == {seq[k] : k \in 1 .. Len(seq)}

\* the place of an element in a sequence that holds it
PlaceOf(seq, x) == CHOOSE k \in 1 .. Len(seq) : seq[k] = x

\* the number of foobars the robots at the given positions are selling
RECURSIVE BatchSizes(_)
BatchSizes(positions) ==
  IF positions = {} THEN 0
  ELSE LET i == CHOOSE p \in positions : TRUE
       IN Len(robots[i].state.foobars) + BatchSizes(positions \ {i})

(***************************************************************************)
(* C6: a robot starts Mining with the extraction time of its material as   *)
(* countdown (1 for foo, a time of the configured range for bar); it is    *)
(* still Mining after each round but the last of that time, and on the     *)
(* last it becomes Idle at the mine and the stock gains one unit of that   *)
(* material and nothing else.                                              *)
(***************************************************************************)
C6_MiningTakesItsTime ==
  [][/\ \A i \in 1 .. Len(robots) :
          (robots'[i].state.class = "Mining" /\ ~IsA(i, "Mining"))
          => /\ Rounds = 0
             /\ robots'[i].state.countdown =
                  robots'[i].state.material.mining_time
             /\ robots'[i].state.material.name = "foo"
                  => /\ robots'[i].state.countdown = 1
                     /\ robots'[i].state.location = FOO_MINE
             /\ robots'[i].state.material.name = "bar"
                  => /\ robots'[i].state.countdown
                          \in settings.mining_bar_range_time[1] ..
                              settings.mining_bar_range_time[2]
                     /\ robots'[i].state.location = BAR_MINE
     /\ \A i \in 1 .. Len(robots) :
          IsA(i, "Mining")
          => /\ robots[i].state.countdown >= 1
             /\ WentThroughRounds(i, robots[i].state.material.where_to_find_it)
     /\ command'.kind = "Wait"
          => /\ foos' = foos + Cardinality(CompletingMining("foo"))
             /\ bars' >= bars + Cardinality(CompletingMining("bar"))
             /\ (Completing("Assembling") = {} /\ Completing("Sell") = {})
                  => /\ bars' = bars + Cardinality(CompletingMining("bar"))
                     /\ foobars' = foobars
                     /\ money' = money]_vars

\* a robot has just finished mining the first bar of the stock, which took
\* three rounds
C6_Witness ==
  /\ settings.mining_bar_range_time = <<3, 3>>
  /\ command.kind = "Wait"
  /\ seconds_left >= 3
  /\ bars = 1
  /\ foos = 0
  /\ \E i \in 1 .. Len(robots) :
       /\ IsA(i, "Idle")
       /\ robots[i].state.countdown = 0
       /\ robots[i].state.location = BAR_MINE

(***************************************************************************)
(* C7: a MoveRobot command for an Idle robot puts it in Moving with        *)
(* countdown 5 at ON_MY_WAY; it is still Moving after each of the next 4   *)
(* rounds and Idle at the requested destination on the 5th.                *)
(***************************************************************************)
C7_MovingTakesFiveRounds ==
  [][/\ \A robot_id \in RobotIds, destination \in DestinationNames :
          LET i == Target(robot_id) IN
          (/\ command'.kind = "MoveRobot"
           /\ command'.robot_id = robot_id
           /\ destination # "kitchen"
           /\ IsA(i, "Idle")
           /\ MoveRobot(robot_id, destination))
          => /\ robots'[i].state.class = "Moving"
             /\ robots'[i].state.countdown = 5
             /\ robots'[i].state.location = ON_MY_WAY
             /\ robots'[i].state.destination = lower(destination)
             /\ caught' = NoError
     /\ \A i \in 1 .. Len(robots) :
          IsA(i, "Moving")
          => /\ robots[i].state.countdown \in 1 .. 5
             /\ WentThroughRounds(i, robots[i].state.destination)]_vars

\* a robot has just arrived at the robots store, five rounds or more after
\* the start
C7_Witness ==
  /\ command.kind = "Wait"
  /\ seconds_left >= 5
  /\ \E i \in 1 .. Len(robots) :
       /\ IsA(i, "Idle")
       /\ robots[i].state.countdown = 0
       /\ robots[i].state.location = ROBOTS_STORE

(***************************************************************************)
(* C8: a MoveRobot command for a robot that is already Moving changes      *)
(* neither its destination nor its countdown, and a Moving robot only      *)
(* ever leaves that state to be Idle at the destination it had.            *)
(***************************************************************************)
C8_MovingRobotIsNotRerouted ==
  [][/\ (command'.kind = "MoveRobot"
         /\ IsA(Target(command'.robot_id), "Moving"))
        => /\ robots' = robots
           /\ LedgerUnchanged
           /\ Rounds = 0
     /\ \A i \in 1 .. Len(robots) :
          IsA(i, "Moving")
          => \/ /\ robots'[i].state.class = "Moving"
                /\ robots'[i].state.destination = robots[i].state.destination
                /\ robots'[i].state.countdown =
                     robots[i].state.countdown - Rounds
             \/ /\ robots'[i].state.class = "Idle"
                /\ robots'[i].state.location = robots[i].state.destination
                /\ Rounds >= robots[i].state.countdown]_vars

\* a MoveRobot command was refused to a robot that had been Moving for a
\* round at least
C8_Witness ==
  /\ command.kind = "MoveRobot"
  /\ caught = "InvalidTransition"
  /\ IsA(Target(command.robot_id), "Moving")
  /\ robots[Target(command.robot_id)].state.countdown < 5

(***************************************************************************)
(* C9: an Assemble command for an Idle robot at ASSEMBLY_LINE over a stock *)
(* with a Foo and a Bar takes exactly one Foo and one Bar out of the stock *)
(* at once, before any round, and puts the robot in Assembling.            *)
(***************************************************************************)
C9_AssembleReservesOneFooOneBar ==
  [][\A robot_id \in RobotIds :
       LET i == Target(robot_id) IN
       (/\ command'.kind = "Assemble"
        /\ command'.robot_id = robot_id
        /\ IsA(i, "Idle")
        /\ robots[i].state.location = ASSEMBLY_LINE
        /\ foos >= 1
        /\ bars >= 1)
       => /\ foos' = foos - 1
          /\ bars' = bars - 1
          /\ foobars' = foobars
          /\ money' = money
          /\ Rounds = 0
          /\ robots'[i].state.class = "Assembling"
          /\ robots'[i].state.countdown = 2
          /\ robots'[i].state.location = ASSEMBLY_LINE
          /\ caught' = NoError]_vars

\* an Assemble command has just taken the only Foo and the only Bar
C9_Witness ==
  /\ command.kind = "Assemble"
  /\ caught = NoError
  /\ IsA(Target(command.robot_id), "Assembling")
  /\ robots[Target(command.robot_id)].state.countdown = 2
  /\ foos = 0
  /\ bars = 0
  /\ created = 1

(***************************************************************************)
(* C10: an assembly that resolves either appends its Foobar to the stock   *)
(* and leaves foos and bars alone, or returns its Bar and leaves foos and  *)
(* foobars alone; either way the robot is Idle at ASSEMBLY_LINE.           *)
(***************************************************************************)
C10_AssemblyResolvesOneWay ==
  [][command'.kind = "Wait"
     => LET resolved == Completing("Assembling")
            succeeded ==
              {i \in resolved : robots[i].state.foobar \in Range(foobars')}
        IN /\ \A i \in resolved :
                /\ robots'[i].state.class = "Idle"
                /\ robots'[i].state.location = ASSEMBLY_LINE
           /\ \A i \in resolved : robots[i].state.foobar \notin Range(foobars)
           /\ Len(foobars') = Len(foobars) + Cardinality(succeeded)
           /\ SubSeq(foobars', 1, Len(foobars)) = foobars
           /\ bars' = bars + Cardinality(resolved \ succeeded)
                           + Cardinality(CompletingMining("bar"))
           /\ foos' = foos + Cardinality(CompletingMining("foo"))]_vars

\* the only assembly started has failed: its Bar is back, its Foo is lost
C10_Witness ==
  /\ command.kind = "Wait"
  /\ created = 1
  /\ foobars = <<>>
  /\ bars = 1
  /\ foos = 0
  /\ \E i \in 1 .. Len(robots) :
       /\ IsA(i, "Idle")
       /\ robots[i].state.countdown = 0
       /\ robots[i].state.location = ASSEMBLY_LINE

(***************************************************************************)
(* C11: whatever the assembly success rate, a robot only starts Assembling *)
(* on an Assemble command, with 2 seconds to go; it is still Assembling    *)
(* after 1 round and on the 2nd round it is Idle at ASSEMBLY_LINE with its *)
(* Foobar in the stock or a Bar returned.                                  *)
(***************************************************************************)
C11_AssemblingTakesTwoRounds ==
  [][/\ \A i \in 1 .. Len(robots) :
          (robots'[i].state.class = "Assembling" /\ ~IsA(i, "Assembling"))
          => /\ command'.kind = "Assemble"
             /\ Rounds = 0
             /\ robots'[i].state.countdown = 2
             /\ robots'[i].state.location = ASSEMBLY_LINE
             /\ robots'[i].state.assembly_success_rate =
                  settings.assembly_success_rate
     /\ \A i \in 1 .. Len(robots) :
          IsA(i, "Assembling")
          => /\ robots[i].state.countdown \in 1 .. 2
             /\ WentThroughRounds(i, ASSEMBLY_LINE)
             /\ Rounds >= robots[i].state.countdown
                  => \/ robots[i].state.foobar \in Range(foobars')
                     \/ bars' > bars]_vars

\* under a success rate of 0 the assembly started at the beginning has just
\* resolved, on the second round
C11_Witness ==
  /\ settings.assembly_success_rate = 0
  /\ command.kind = "Wait"
  /\ seconds_left = 2
  /\ created = 1
  /\ \E i \in 1 .. Len(robots) :
       /\ IsA(i, "Idle")
       /\ robots[i].state.countdown = 0
       /\ robots[i].state.location = ASSEMBLY_LINE

(***************************************************************************)
(* C12: a Mine, Assemble, SellFoobars or BuyRobot command for a robot that *)
(* is Moving, Mining, Assembling or selling changes neither that robot     *)
(* (state, countdown, location, what it holds) nor the roster nor any      *)
(* quantity of the stock.                                                  *)
(***************************************************************************)
C12_BusyRobotRefusesTasks ==
  [][(/\ command'.kind \in {"Mine", "Assemble", "SellFoobars", "BuyRobot"}
      /\ Target(command'.robot_id) # 0
      /\ robots[Target(command'.robot_id)].state.class
           \in {"Moving", "Mining", "Assembling", "Sell"})
     => /\ robots' = robots
        /\ LedgerUnchanged
        /\ Rounds = 0]_vars

\* a robot that is selling one foobar, another being in stock, has just been
\* asked to sell again
C12_Witness ==
  /\ command.kind = "SellFoobars"
  /\ caught = InvalidTransition
  /\ IsA(Target(command.robot_id), "Sell")
  /\ foobars # <<>>

(***************************************************************************)
(* C13: Stock.start_selling(min_nb, max_nb) on n foobars, as the sale of   *)
(* an Idle robot at the material store calls it, takes the first           *)
(* min(max_nb, n) foobars in order and leaves the others in order when     *)
(* that number is min_nb at least; otherwise it fails with                 *)
(* NotEnoughMaterial and takes nothing.                                    *)
(***************************************************************************)
C13_StartSellingTakesTheFront ==
  [][\A robot_id \in RobotIds :
       LET i == Target(robot_id)
           min_nb == settings.foobars_selling_range[1]
           max_nb == settings.foobars_selling_range[2]
           n == Len(foobars)
           taken == IF max_nb <= n THEN max_nb ELSE n
       IN (/\ command'.kind = "SellFoobars"
           /\ command'.robot_id = robot_id
           /\ IsA(i, "Idle")
           /\ robots[i].state.location = MATERIAL_STORE)
          => IF taken >= min_nb
             THEN /\ caught' = NoError
                  /\ robots'[i].state.class = "Sell"
                  /\ robots'[i].state.foobars = [k \in 1 .. taken |-> foobars[k]]
                  /\ foobars' = [k \in 1 .. n - taken |-> foobars[taken + k]]
             ELSE /\ caught' = NotEnoughMaterial
                  /\ foobars' = foobars
                  /\ robots' = robots]_vars

\* of the 6 foobars in stock a sale of 5 at most has just taken the first 5
\* and left the last
C13_Witness ==
  /\ command.kind = "SellFoobars"
  /\ caught = NoError
  /\ settings.foobars_selling_range = <<1, 5>>
  /\ foobars = <<6>>
  /\ \E i \in 1 .. Len(robots) :
       /\ IsA(i, "Sell")
       /\ robots[i].state.foobars = <<1, 2, 3, 4, 5>>

(***************************************************************************)
(* C14: a sale only starts on a SellFoobars command that succeeds, with 10 *)
(* seconds to go and the money as it was; the money does not move during   *)
(* its first 9 rounds, and on the 10th the robot is Idle at MATERIAL_STORE *)
(* and the money grows by 1.00 for each foobar of the batch.  A            *)
(* SellFoobars command that fails starts no sale and credits nothing: the  *)
(* money only ever grows by the batches of the sales that end.             *)
(***************************************************************************)
C14_SaleIsPaidOnTheTenthRound ==
  [][/\ \A i \in 1 .. Len(robots) :
          (robots'[i].state.class = "Sell" /\ ~IsA(i, "Sell"))
          => /\ command'.kind = "SellFoobars"
             /\ caught' = NoError
             /\ Rounds = 0
             /\ robots'[i].state.countdown = 10
             /\ money' = money
     /\ \A i \in 1 .. Len(robots) :
          IsA(i, "Sell")
          => /\ robots[i].state.countdown \in 1 .. 10
             /\ WentThroughRounds(i, MATERIAL_STORE)
     /\ command'.kind = "Wait"
          => money' = money + 100 * BatchSizes(Completing("Sell"))
     /\ command'.kind # "Wait" => money' <= money
     /\ (command'.kind = "SellFoobars" /\ caught' # NoError)
          => /\ robots' = robots
             /\ money' = money
             /\ foobars' = foobars]_vars

\* the sale of 5 foobars started at the beginning has just been paid 5.00,
\* on the tenth round
C14_Witness ==
  /\ command.kind = "Wait"
  /\ seconds_left = 10
  /\ money = 500
  /\ foobars = <<6>>
  /\ \E i \in 1 .. Len(robots) :
       /\ IsA(i, "Idle")
       /\ robots[i].state.countdown = 0
       /\ robots[i].state.location = MATERIAL_STORE

(***************************************************************************)
(* C15: a SellFoobars command for an Idle robot that is anywhere but at    *)
(* MATERIAL_STORE is refused as an invalid transition: the foobars, the    *)
(* money and the rest of the stock are unchanged and the robot is still    *)
(* Idle where it was.                                                      *)
(***************************************************************************)
C15_SellAwayFromTheStoreFails ==
  [][\A robot_id \in RobotIds :
       LET i == Target(robot_id) IN
       (/\ command'.kind = "SellFoobars"
        /\ command'.robot_id = robot_id
        /\ IsA(i, "Idle")
        /\ robots[i].state.location # MATERIAL_STORE)
       => /\ caught' = InvalidTransition
          /\ foobars' = foobars
          /\ money' = money
          /\ LedgerUnchanged
          /\ robots' = robots
          /\ robots'[i].state.class = "Idle"
          /\ robots'[i].state.location = robots[i].state.location]_vars

\* a sale has just been refused to the Idle robot of the robots store, two
\* foobars being in stock
C15_Witness ==
  /\ command.kind = "SellFoobars"
  /\ caught = InvalidTransition
  /\ foobars = <<1, 2>>
  /\ LET i == Target(command.robot_id)
     IN /\ IsA(i, "Idle")
        /\ robots[i].state.location = ROBOTS_STORE

(***************************************************************************)
(* C16: Stock.buy_robot, as the purchase of an Idle robot at the robots    *)
(* store calls it, is all or nothing: with the money and the foos of       *)
(* settings.robot_cost in stock it takes exactly both and appends exactly  *)
(* one robot to the roster; otherwise it fails with NotEnoughMaterial and  *)
(* the money, the foos and the roster are unchanged.                       *)
(***************************************************************************)
C16_BuyRobotIsAllOrNothing ==
  [][\A robot_id \in RobotIds :
       LET i == Target(robot_id)
           required_money == 100 * settings.robot_cost[1]
           required_foos == settings.robot_cost[2]
       IN (/\ command'.kind = "BuyRobot"
           /\ command'.robot_id = robot_id
           /\ IsA(i, "Idle")
           /\ robots[i].state.location = ROBOTS_STORE)
          => IF money >= required_money /\ foos >= required_foos
             THEN /\ caught' = NoError
                  /\ money' = money - required_money
                  /\ foos' = foos - required_foos
                  /\ Len(robots') = Len(robots) + 1
                  /\ SubSeq(robots', 1, Len(robots)) = robots
                  /\ bars' = bars /\ foobars' = foobars
             ELSE /\ caught' = NotEnoughMaterial
                  /\ money' = money
                  /\ foos' = foos
                  /\ robots' = robots
                  /\ bars' = bars /\ foobars' = foobars]_vars

\* a purchase has just failed for want of foos, the money being there: 10.00
\* and 2 foos are in stock as before and the roster has its one robot
C16_Witness ==
  /\ command.kind = "BuyRobot"
  /\ caught = NotEnoughMaterial
  /\ money = 1000
  /\ foos = 2
  /\ Len(robots) = 1
  /\ LET i == Target(command.robot_id)
     IN /\ IsA(i, "Idle")
        /\ robots[i].state.location = ROBOTS_STORE

(***************************************************************************)
(* C17: a BuyRobot command for an Idle robot that is anywhere but at       *)
(* ROBOTS_STORE is refused as an invalid transition and leaves the roster, *)
(* the money and the foos unchanged, even when the stock would pay for a   *)
(* robot.                                                                  *)
(***************************************************************************)
C17_BuyAwayFromTheStoreFails ==
  [][\A robot_id \in RobotIds :
       LET i == Target(robot_id) IN
       (/\ command'.kind = "BuyRobot"
        /\ command'.robot_id = robot_id
        /\ IsA(i, "Idle")
        /\ robots[i].state.location # ROBOTS_STORE)
       => /\ caught' = InvalidTransition
          /\ robots' = robots
          /\ money' = money
          /\ foos' = foos
          /\ counter' = counter]_vars

\* a purchase has just been refused to the Idle robot of the material store,
\* the price of a robot being in stock
C17_Witness ==
  /\ command.kind = "BuyRobot"
  /\ caught = InvalidTransition
  /\ money >= 100 * settings.robot_cost[1]
  /\ foos >= settings.robot_cost[2]
  /\ Len(robots) = 1
  /\ LET i == Target(command.robot_id)
     IN /\ IsA(i, "Idle")
        /\ robots[i].state.location = MATERIAL_STORE

(***************************************************************************)
(* C18, as stated: the robot that a successful buy_robot appends to the    *)
(* roster is Idle and located at ROBOTS_STORE.                             *)
(***************************************************************************)
C18_BoughtRobotIsAtTheRobotsStore ==
  [][Len(robots') # Len(robots)
     => /\ robots'[Len(robots')].state.class = "Idle"
        /\ robots'[Len(robots')].state.location = ROBOTS_STORE]_vars

(***************************************************************************)
(* C18, amended: the roster only grows by one robot at its end, on a       *)
(* BuyRobot command that succeeds, and that robot is Idle and located at   *)
(* CAFETERIA, where every robot built without a location is.               *)
(***************************************************************************)
C18_BoughtRobotIsAtTheCafeteria ==
  [][Len(robots') # Len(robots)
     => /\ command'.kind = "BuyRobot"
        /\ caught' = NoError
        /\ Len(robots') = Len(robots) + 1
        /\ SubSeq(robots', 1, Len(robots)) = robots
        /\ robots'[Len(robots')].state.class = "Idle"
        /\ robots'[Len(robots')].state.countdown = 0
        /\ robots'[Len(robots')].state.location = CAFETERIA]_vars

\* a robot has just been bought by the robot of the robots store and stands
\* second in the roster, Idle at the cafeteria
C18_Witness ==
  /\ command.kind = "BuyRobot"
  /\ caught = NoError
  /\ Len(robots) = 2
  /\ robots[1].state.location = ROBOTS_STORE
  /\ robots[2].state.class = "Idle"
  /\ robots[2].state.location = CAFETERIA

(***************************************************************************)
(* C19: a BuyRobot command leaves the robot it is addressed to as it was:  *)
(* an Idle buyer is Idle at the same location after the command, whether   *)
(* the purchase succeeds or fails, and it keeps its place in the roster.   *)
(***************************************************************************)
C19_BuyerStaysAsItWas ==
  [][\A robot_id \in RobotIds :
       LET i == Target(robot_id) IN
       (/\ command'.kind = "BuyRobot"
        /\ command'.robot_id = robot_id
        /\ IsA(i, "Idle"))
       => /\ robots'[i] = robots[i]
          /\ robots'[i].state.class = "Idle"
          /\ robots'[i].state.location = robots[i].state.location
          /\ Rounds = 0]_vars

\* the robot of the robots store has just spent the last of the money and of
\* the foos on a robot, and is Idle at the robots store
C19_Witness ==
  /\ command.kind = "BuyRobot"
  /\ caught = NoError
  /\ money = 0
  /\ foos = 0
  /\ LET i == Target(command.robot_id)
     IN /\ IsA(i, "Idle")
        /\ robots[i].state.location = ROBOTS_STORE

(***************************************************************************)
(* C20: in every reachable state no two robots of the roster share an id.  *)
(***************************************************************************)
C20_RobotIdsAreUnique ==
  \A i, j \in 1 .. Len(robots) : robots[i].id_ = robots[j].id_ => i = j

(***************************************************************************)
(* C21: in every reachable state the number of foos, the number of bars,   *)
(* the number of foobars and the money are 0 at least, whatever the        *)
(* commands and the random draws were.                                     *)
(***************************************************************************)
C21_StockIsNeverNegative ==
  /\ foos >= 0
  /\ bars >= 0
  /\ Len(foobars) >= 0
  /\ money >= 0

\* an assembly has just taken the last Foo and the last Bar of the stock
C21_Witness ==
  /\ command.kind = "Assemble"
  /\ caught = NoError
  /\ foos = 0
  /\ bars = 0
  /\ created = 1

(***************************************************************************)
(* C22: Stock.get_robot finds the first robot of the roster that has the   *)
(* id asked for, and a ghost when there is none; a MoveRobot, Mine,        *)
(* Assemble, SellFoobars or BuyRobot command for an id that is not in the  *)
(* roster changes no robot and no quantity of the stock, runs no round and *)
(* raises nothing to its caller.                                           *)
(***************************************************************************)
C22_UnknownRobotIsANoOp ==
  [][/\ \A robot_id \in RobotIds :
          IF \E i \in 1 .. Len(robots) : robots[i].id_ = robot_id
          THEN /\ Target(robot_id) \in 1 .. Len(robots)
               /\ RobotAt(factory, Target(robot_id)).id_ = robot_id
          ELSE /\ Target(robot_id) = 0
               /\ RobotAt(factory, Target(robot_id)) = Robot_ghost
     /\ (/\ command'.kind \in {"MoveRobot", "Mine", "Assemble",
                                "SellFoobars", "BuyRobot"}
         /\ \A i \in 1 .. Len(robots) : robots[i].id_ # command'.robot_id)
        => /\ robots' = robots
           /\ LedgerUnchanged
           /\ Rounds = 0
           /\ propagated' = NoError]_vars

\* a ghost has just refused to mine: the id of the command is not in the
\* roster, whose robot is Idle at the foo mine
C22_Witness ==
  /\ command.kind = "Mine"
  /\ caught = InvalidTransition
  /\ \A i \in 1 .. Len(robots) : robots[i].id_ # command.robot_id
  /\ \E i \in 1 .. Len(robots) :
       /\ IsA(i, "Idle")
       /\ robots[i].state.location = FOO_MINE

(***************************************************************************)
(* C23: the ghost robot is false in a truth test and every robot of the    *)
(* roster is true.                                                         *)
(***************************************************************************)
C23_OnlyRealRobotsAreTruthy ==
  /\ Robot_bool(Robot_ghost) = FALSE
  /\ \A i \in 1 .. Len(robots) : Robot_bool(robots[i]) = TRUE

(***************************************************************************)
(* C24: in every reachable state every Idle robot has countdown 0, however *)
(* many rounds it has been through.                                        *)
(***************************************************************************)
C24_IdleCountdownIsZero ==
  \A i \in 1 .. Len(robots) : IsA(i, "Idle") => robots[i].state.countdown = 0

(***************************************************************************)
(* C25: in every reachable state a robot of the roster is located at       *)
(* ON_MY_WAY if and only if it is Moving or Haunting, whatever the         *)
(* destinations of the MoveRobot commands were.                            *)
(***************************************************************************)
C25_OnMyWayOnlyWhileMoving ==
  \A i \in 1 .. Len(robots) :
    robots[i].state.location = ON_MY_WAY
    <=> robots[i].state.class \in {"Moving", "Haunting"}

(***************************************************************************)
(* C26: a command raises GameOver to its caller exactly when it is a wait  *)
(* that runs a round with the roster at the limit of                       *)
(* settings.limit_of_robots_for_game_over: never while the roster is below *)
(* it, and on the first round run once it is reached.                      *)
(***************************************************************************)
C26_GameOverExactlyAtTheLimit ==
  [][propagated' = GameOver
     <=> /\ command'.kind = "Wait"
         /\ Rounds >= 1
         /\ Len(robots) >= settings.limit_of_robots_for_game_over]_vars

(***************************************************************************)
(* C27: for an Idle robot, a MoveRobot command to "kitchen", which names   *)
(* no Location, and a Mine command for "gold", which names no material,    *)
(* are dropped as UnknownLocation and UnknownMaterial: the robot is Idle   *)
(* where it was, the stock is unchanged and nothing is raised to the       *)
(* caller.  A MoveRobot command to "Foo Mine" or "ASSEMBLY LINE", which    *)
(* differ from a Location name by letter case only, starts Moving to that  *)
(* Location.                                                               *)
(***************************************************************************)
C27_UnknownNamesAreDropped ==
  [][\A robot_id \in RobotIds :
       LET i == Target(robot_id) IN
       /\ (/\ command'.kind = "MoveRobot"
           /\ command'.robot_id = robot_id
           /\ IsA(i, "Idle")
           /\ MoveRobot(robot_id, "kitchen"))
          => /\ caught' = UnknownLocation
             /\ propagated' = NoError
             /\ robots' = robots
             /\ LedgerUnchanged
       /\ (/\ command'.kind = "Mine"
           /\ command'.robot_id = robot_id
           /\ IsA(i, "Idle")
           /\ Mine(robot_id, "gold"))
          => /\ caught' = UnknownMaterial
             /\ propagated' = NoError
             /\ robots' = robots
             /\ LedgerUnchanged
       /\ \A named \in {<<"Foo Mine", FOO_MINE>>,
                         <<"ASSEMBLY LINE", ASSEMBLY_LINE>>} :
            (/\ command'.kind = "MoveRobot"
             /\ command'.robot_id = robot_id
             /\ IsA(i, "Idle")
             /\ MoveRobot(robot_id, named[1]))
            => /\ caught' = NoError
               /\ propagated' = NoError
               /\ robots'[i].state.class = "Moving"
               /\ robots'[i].state.destination = named[2]]_vars

\* a Mine command for an unknown material has just been dropped, the robot
\* it was for being Idle at the bar mine
C27_Witness ==
  /\ command.kind = "Mine"
  /\ caught = UnknownMaterial
  /\ propagated = NoError
  /\ LET i == Target(command.robot_id)
     IN /\ IsA(i, "Idle")
        /\ robots[i].state.location = BAR_MINE

(***************************************************************************)
(* C28: in every reachable state no robot of the roster is Haunting, and   *)
(* RobotState.haunt called on a robot of the roster fails with             *)
(* InvalidTransition and leaves the roster and the stock as they were.     *)
(***************************************************************************)
C28_OnlyTheGhostHaunts ==
  \A i \in 1 .. Len(robots) :
    /\ robots[i].state.class # "Haunting"
    /\ State_haunt(factory, i).exc = InvalidTransition
    /\ State_haunt(factory, i).factory = factory

(***************************************************************************)
(* C29: whatever random.random() returns, an assembly that resolves under  *)
(* a success rate of 1 puts its Foobar in the stock, and an assembly that  *)
(* resolves under a success rate of 0 does not: its Bar is returned.       *)
(***************************************************************************)
C29_ExtremeRatesAreCertain ==
  [][command'.kind = "Wait"
     => \A i \in Completing("Assembling") :
          /\ robots[i].state.assembly_success_rate = 100
               => robots[i].state.foobar \in Range(foobars')
          /\ robots[i].state.assembly_success_rate = 0
               => /\ robots[i].state.foobar \notin Range(foobars')
                  /\ bars' > bars]_vars

(***************************************************************************)
(* C30: a robot only starts Mining a bar on a Mine command, and its        *)
(* countdown is then the extraction time of its Bar, a time of             *)
(* settings.mining_bar_range_time drawn by that command; each time of the  *)
(* range is a possible outcome of a Mine bar command for an Idle robot at  *)
(* the bar mine, so that two such commands may get different countdowns.   *)
(***************************************************************************)
C30_BarTimeIsDrawnByMine ==
  [][/\ \A i \in 1 .. Len(robots) :
          (/\ robots'[i].state.class = "Mining"
           /\ robots'[i].state.material.name = "bar"
           /\ ~IsA(i, "Mining"))
          => /\ command'.kind = "Mine"
             /\ Rounds = 0
             /\ robots'[i].state.countdown >= settings.mining_bar_range_time[1]
             /\ robots'[i].state.countdown <= settings.mining_bar_range_time[2]
             /\ robots'[i].state.material.mining_time =
                  robots'[i].state.countdown
     /\ \A robot_id \in RobotIds :
          LET i == Target(robot_id) IN
          (/\ command'.kind = "Mine"
           /\ command'.robot_id = robot_id
           /\ IsA(i, "Idle")
           /\ robots[i].state.location = BAR_MINE)
          => \A time \in settings.mining_bar_range_time[1] ..
                         settings.mining_bar_range_time[2] :
               ENABLED (/\ Mine(robot_id, "BAR")
                        /\ robots'[i].state.class = "Mining"
                        /\ robots'[i].state.countdown = time)]_vars

\* under a range of 1 to 2 seconds a Mine command has just drawn 2 seconds
\* for its Bar, the longer of the two times
C30_Witness ==
  /\ command.kind = "Mine"
  /\ settings.mining_bar_range_time = <<1, 2>>
  /\ LET i == Target(command.robot_id)
     IN /\ IsA(i, "Mining")
        /\ robots[i].state.material.name = "bar"
        /\ robots[i].state.countdown = 2

(***************************************************************************)
(* C31: the robot that the id generator of the stock yields next, built    *)
(* without a location, is Idle at CAFETERIA with countdown 0 and the next  *)
(* id of the generator, and it is as such that a robot joins the roster.   *)
(***************************************************************************)
C31_GeneratedRobotsIdleAtTheCafeteria ==
  [][/\ robots_generator_next(counter).id_ = counter
     /\ robots_generator_next(counter).state.class = "Idle"
     /\ robots_generator_next(counter).state.location = CAFETERIA
     /\ robots_generator_next(counter).state.countdown = 0
     /\ Len(robots') > Len(robots)
          => /\ robots'[Len(robots')] = robots_generator_next(counter)
             /\ counter' = counter + 1]_vars

\* the robot that the generator yielded for a purchase has been through a
\* round and is Idle at the cafeteria
C31_Witness ==
  /\ Len(robots) = 2
  /\ counter = 2
  /\ seconds_left >= 1
  /\ IsA(2, "Idle")
  /\ robots[2].state.location = CAFETERIA

(***************************************************************************)
(* C32: a robot that is Moving, Mining, Assembling or selling has 1 second *)
(* to go at least; each round takes exactly 1 from its countdown, and the  *)
(* round that brings it to 0 idles the robot where its task ends.  The     *)
(* effect of a task on the stock is applied on that round and on no        *)
(* other: over a wait the stock changes by the tasks that reach 0 during   *)
(* it and by nothing else, and an Idle robot stays Idle where it is.       *)
(***************************************************************************)
C32_TasksCompleteOnceAtZero ==
  [][/\ \A i \in 1 .. Len(robots) :
          robots[i].state.class \in {"Moving", "Mining", "Assembling", "Sell"}
          => /\ robots[i].state.countdown >= 1
             /\ WentThroughRounds(i,
                  IF IsA(i, "Moving") THEN robots[i].state.destination
                  ELSE robots[i].state.location)
     /\ command'.kind = "Wait"
          => /\ \A i \in 1 .. Len(robots) :
                  IsA(i, "Idle")
                  => /\ robots'[i].state.class = "Idle"
                     /\ robots'[i].state.location = robots[i].state.location
             /\ Len(robots') = Len(robots)
             /\ foos' = foos + Cardinality(CompletingMining("foo"))
             /\ bars' + Len(foobars') =
                  bars + Len(foobars) + Cardinality(CompletingMining("bar"))
                       + Cardinality(Completing("Assembling"))
             /\ bars' >= bars /\ Len(foobars') >= Len(foobars)
             /\ money' = money + 100 * BatchSizes(Completing("Sell"))
             /\ created' = created]_vars

\* a bar whose extraction took 2 seconds has just come into the stock, on
\* the second round of the wait that followed the Mine command
C32_Witness ==
  /\ command.kind = "Wait"
  /\ seconds_left = 2
  /\ settings.mining_bar_range_time = <<1, 2>>
  /\ bars = 1
  /\ foos = 0
  /\ \E i \in 1 .. Len(robots) :
       /\ IsA(i, "Idle")
       /\ robots[i].state.countdown = 0
       /\ robots[i].state.location = BAR_MINE

(***************************************************************************)
(* C33: a wait of n seconds runs exactly n rounds unless GameOver reaches  *)
(* its caller, and no other command runs a round; each round calls         *)
(* run_round once on every robot of the roster, so that every countdown    *)
(* is n less after the wait; the rounds and, within a round, the robots    *)
(* take their turn in order, so that of two assemblies that succeed during *)
(* the wait the Foobar of the one that ends on an earlier round, or on the *)
(* same round for a robot earlier in the roster, is put in stock first.    *)
(***************************************************************************)
C33_RoundsRunInRosterOrder ==
  [][/\ \A seconds \in 0 .. MaxWait :
          (/\ command'.kind = "Wait"
           /\ WaitWithin(seconds_left + seconds, seconds))
          => \/ propagated' = GameOver
             \/ Rounds = seconds
     /\ command'.kind # "Wait" => Rounds = 0
     /\ command'.kind = "Wait"
          => /\ Len(robots') = Len(robots)
             /\ \A i \in 1 .. Len(robots) :
                  robots'[i].state.countdown =
                    robots[i].state.countdown - Rounds
             /\ \A i, j \in Completing("Assembling") :
                  (/\ robots[i].state.foobar \in Range(foobars')
                   /\ robots[j].state.foobar \in Range(foobars')
                   /\ \/ robots[i].state.countdown < robots[j].state.countdown
                      \/ /\ robots[i].state.countdown =
                              robots[j].state.countdown
                         /\ i < j)
                  => PlaceOf(foobars', robots[i].state.foobar)
                       < PlaceOf(foobars', robots[j].state.foobar)]_vars

\* the second robot of the roster started its assembly first, the first
\* robot second, and both have just ended on the same round: the Foobar of
\* the first robot is in stock before that of the second
C33_Witness ==
  /\ command.kind = "Wait"
  /\ Len(robots) = 2
  /\ foobars = <<2, 1>>
  /\ \A i \in 1 .. Len(robots) :
       /\ IsA(i, "Idle")
       /\ robots[i].state.countdown = 0

(***************************************************************************)
(* C34: an Assemble command for an Idle robot that is not at ASSEMBLY_LINE *)
(* or that finds no Foo or no Bar in stock is refused as an invalid        *)
(* transition and reserves nothing: the foos, the bars and the rest of the *)
(* stock are unchanged, whichever of the two is missing, and the robot is  *)
(* Idle as before.                                                         *)
(***************************************************************************)
C34_FailedAssembleReservesNothing ==
  [][\A robot_id \in RobotIds :
       LET i == Target(robot_id) IN
       (/\ command'.kind = "Assemble"
        /\ command'.robot_id = robot_id
        /\ IsA(i, "Idle")
        /\ \/ robots[i].state.location # ASSEMBLY_LINE
           \/ foos = 0
           \/ bars = 0)
       => /\ caught' = InvalidTransition
          /\ propagated' = NoError
          /\ foos' = foos
          /\ bars' = bars
          /\ LedgerUnchanged
          /\ robots' = robots]_vars

\* an assembly has just been refused at the assembly line for want of a
\* Foo, the Bar that is in stock being still there
C34_Witness ==
  /\ command.kind = "Assemble"
  /\ caught = InvalidTransition
  /\ foos = 0
  /\ bars = 1
  /\ LET i == Target(command.robot_id)
     IN /\ IsA(i, "Idle")
        /\ robots[i].state.location = ASSEMBLY_LINE

(***************************************************************************)
(* C35: every task terminates, whatever range of mining times the Settings *)
(* object holds: a robot that is Moving, Mining, Assembling or Selling     *)
(* with a countdown of c is Idle after any wait of c rounds or more (one   *)
(* round at least), and                                                    *)
(* after a wait of n < c rounds it is in the same task with c - n >= 1     *)
(* rounds to go, so that it is Idle after finitely many rounds.            *)
(***************************************************************************)
C35_EveryTaskTerminates ==
  [][\A i \in 1 .. Len(robots) :
       (/\ command'.kind = "Wait"
        /\ Rounds >= 1
        /\ robots[i].state.class \in {"Moving", "Mining", "Assembling", "Sell"})
       => IF Rounds >= robots[i].state.countdown
          THEN IsA(i, "Idle")'
          ELSE /\ robots'[i].state.class = robots[i].state.class
               /\ robots'[i].state.countdown
                    = robots[i].state.countdown - Rounds
               /\ robots'[i].state.countdown >= 1]_vars

(***************************************************************************)
(* C36: a MoveRobot, Mine, Assemble, SellFoobars or BuyRobot command for   *)
(* the robot id r leaves every robot of the roster but the first one whose *)
(* id is r as it was, state, countdown and location; when no robot has the *)
(* id r it leaves them all as they were.                                   *)
(***************************************************************************)
C36_CommandsTouchTheirRobotOnly ==
  [][command'.kind \in {"MoveRobot", "Mine", "Assemble", "SellFoobars",
                        "BuyRobot"}
     => /\ Len(robots') >= Len(robots)
        /\ \A j \in 1 .. Len(robots) :
             j # Target(command'.robot_id) => robots'[j] = robots[j]]_vars

\* the first of two robots that have the same id has just been sent on its
\* way, and the second one has stayed where it was bought
C36_Witness ==
  /\ command.kind = "MoveRobot"
  /\ Len(robots) = 2
  /\ robots[2].id_ = robots[1].id_
  /\ command.robot_id = robots[1].id_
  /\ IsA(1, "Moving")
  /\ IsA(2, "Idle")
  /\ robots[2].state.location = CAFETERIA

(***************************************************************************)
(* C37: the roster only grows.  No command and no round removes a robot or *)
(* moves it to another place of the roster; a BuyRobot command that        *)
(* succeeds makes the roster one robot longer, the new robot standing last *)
(* and the others being as they were; a BuyRobot command that fails, any   *)
(* other command and any wait leave the roster at its length.              *)
(***************************************************************************)
C37_RosterOnlyGrows ==
  [][/\ Len(robots') >= Len(robots)
     /\ \A j \in 1 .. Len(robots) : robots'[j].id_ = robots[j].id_
     /\ IF command'.kind = "BuyRobot" /\ caught' = NoError
        THEN /\ Len(robots') = Len(robots) + 1
             /\ SubSeq(robots', 1, Len(robots)) = robots
             /\ robots'[Len(robots')] = robots_generator_next(counter)
        ELSE Len(robots') = Len(robots)]_vars

\* after a purchase the buyer has walked to the foo mine and the seconds have
\* passed: the roster still holds the buyer first and the bought robot last
C37_Witness ==
  /\ command.kind = "Wait"
  /\ seconds_left >= 1
  /\ Len(robots) = 2
  /\ IsA(1, "Idle")
  /\ robots[1].state.location = FOO_MINE
  /\ IsA(2, "Idle")
  /\ robots[2].state.location = CAFETERIA
  /\ counter = 2

(***************************************************************************)
(* Helpers of the properties about the ledger                              *)
(***************************************************************************)
\* the foobars the Sell states of the roster hold
HeldFoobars ==
  UNION {Range(robots[i].state.foobars) : i \in 1 .. Len(robots)}

\* the foobars that are in the factory and not sold yet
UnsoldFoobars == Range(foobars) \cup HeldFoobars

\* the foobars the Assembling states of the roster are putting together
PendingFoobars ==
  {robots[i].state.foobar : i \in AssemblingPositions}

\* every foobar is in one place: once in the stock or once in one sale
EachFoobarInOnePlace ==
  /\ Cardinality(Range(foobars)) = Len(foobars)
  /\ \A i \in 1 .. Len(robots) :
       /\ Cardinality(Range(robots[i].state.foobars))
            = Len(robots[i].state.foobars)
       /\ Range(robots[i].state.foobars) \cap Range(foobars) = {}
       /\ \A j \in 1 .. Len(robots) :
            j # i => Range(robots[i].state.foobars)
                       \cap Range(robots[j].state.foobars) = {}

(***************************************************************************)
(* C38: money is conserved.  Every step changes the money by 1.00 for each *)
(* foobar of the sales that it completes, less the money of robot_cost if  *)
(* it is a purchase that succeeds, and by nothing else, so that the money  *)
(* is at all times the initial money plus 1.00 per foobar sold less the    *)
(* price of the robots bought.  A foobar is in one place at a time, the    *)
(* foobars that leave the factory are those of the sales that end, and a   *)
(* foobar that a sale took from the stock is never in the stock again.     *)
(***************************************************************************)
C38_MoneyIsConserved ==
  [][LET sold == UnsoldFoobars \ UnsoldFoobars'
         bought == IF command'.kind = "BuyRobot" /\ caught' = NoError
                   THEN 1 ELSE 0
     IN /\ money' = money + 100 * Cardinality(sold)
                       - 100 * settings.robot_cost[1] * bought
        /\ bought = Len(robots') - Len(robots)
        /\ sold \subseteq HeldFoobars
        /\ sold = UNION {Range(robots[i].state.foobars) :
                           i \in Completing("Sell")}
        /\ HeldFoobars' \subseteq HeldFoobars \cup Range(foobars)
        /\ Range(foobars') \subseteq Range(foobars) \cup PendingFoobars
        /\ EachFoobarInOnePlace']_vars

\* the foobar of the stock has been sold, its 1.00 has made the price of a
\* robot with the 2.00 of the start, and the robot has been bought
C38_Witness ==
  /\ command.kind = "BuyRobot"
  /\ caught = NoError
  /\ seconds_left = 15
  /\ money = 0
  /\ foos = 0
  /\ foobars = <<>>
  /\ Len(robots) = 2

(***************************************************************************)
(* C39: bars and foos are conserved.  Counting with the bars in stock the  *)
(* bars that the Assembling robots hold, every step adds one bar for each  *)
(* bar mining it completes and takes one for each foobar it produces, and  *)
(* changes the count by nothing else: a failed assembly gives its bar      *)
(* back.  The foos follow the same equation with two more losses: one foo  *)
(* for each assembly that fails and the foos of robot_cost for a purchase  *)
(* that succeeds.  Summed over the steps, these are the two equations      *)
(* between the initial stock, the minings and what has become of them.     *)
(***************************************************************************)
C39_MaterialsAreConserved ==
  [][LET held == Cardinality(AssemblingPositions)
         resolved == Completing("Assembling")
         produced == {i \in resolved :
                        robots[i].state.foobar \in Range(foobars')}
         failed == resolved \ produced
         bought == IF command'.kind = "BuyRobot" /\ caught' = NoError
                   THEN 1 ELSE 0
     IN /\ bars' + held' = bars + held
                             + Cardinality(CompletingMining("bar"))
                             - Cardinality(produced)
        /\ foos' + held' = foos + held
                             + Cardinality(CompletingMining("foo"))
                             - Cardinality(produced)
                             - Cardinality(failed)
                             - settings.robot_cost[2] * bought
        /\ Len(foobars') + Cardinality(HeldFoobars')
             = Len(foobars) + Cardinality(HeldFoobars)
               + Cardinality(produced)
               - Cardinality(UnsoldFoobars \ UnsoldFoobars')
        /\ created' - created = Cardinality(AssemblingPositions' \
                                             AssemblingPositions)
        /\ bars' >= 0
        /\ foos' >= 0]_vars

\* a robot walks away from an assembly that failed: the bar is in stock
\* again and the foo is lost
C39_Witness ==
  /\ command.kind = "MoveRobot"
  /\ caught = NoError
  /\ created = 1
  /\ foobars = <<>>
  /\ bars = 1
  /\ foos = 0
  /\ seconds_left = 2
  /\ IsA(1, "Moving")

(***************************************************************************)
(* C40: waiting is additive.  From every reachable state, whatever the     *)
(* outcomes of the random draws, a wait of a seconds followed by a wait of *)
(* b seconds leaves the factory that a wait of a + b seconds leaves with   *)
(* the same outcomes: the same robots, the same stock and the same         *)
(* seconds; a wait of 0 seconds changes nothing, a round adds exactly 1 to *)
(* the seconds and a wait of a seconds adds a.                             *)
(***************************************************************************)
C40_WaitingIsAdditive ==
  \A draws \in [AssemblingPositions -> RandomDraws] :
    /\ Factory_wait(factory, 0, draws) = Return(factory)
    /\ Factory_run_round(factory, draws).seconds_left = seconds_left + 1
    /\ \A a \in 0 .. MaxWait, b \in 0 .. MaxWait :
         LET first == Factory_wait(factory, a, draws)
         IN /\ first.exc = NoError
            /\ first.factory.seconds_left = seconds_left + a
            /\ Factory_wait(first.factory, b, draws)
                 = Factory_wait(factory, a + b, draws)

\* a second has been waited on an assembly, which the next second resolves:
\* waiting it after the first is waiting the two at once
C40_Witness ==
  /\ command.kind = "Wait"
  /\ seconds_left = 1
  /\ \E i \in AssemblingPositions : robots[i].state.countdown = 1
  /\ \E draws \in [AssemblingPositions -> RandomDraws] :
       /\ Factory_wait(factory, 1, draws).factory.foobars # foobars
       /\ Factory_wait(factory, 1, draws).factory.seconds_left = 2

====
